---- MODULE Spec2Model ----
(***************************************************************************)
(* The metrics pipeline of the HealthKart influencer dashboard             *)
(* (src/healthkart_dashboard/app.py).  The script is run top to bottom on  *)
(* every user interaction: one run is one action (RunScript); between two  *)
(* runs the user changes the sidebar widgets (ChangeFilters).              *)
(*                                                                         *)
(* Cells of a table are tagged values: Num(n) a number, NaN a missing      *)
(* value (NaN / NaT / None), Text a cell whose text parses neither as a    *)
(* number nor as a date, DateStr(t) a cell whose text parses to the        *)
(* timestamp t, PosInf / NegInf the float infinities.  Ratio columns       *)
(* (roas, roi (%), iROAS) hold fixed-point numbers with two decimals:      *)
(* Num(n) in such a column stands for n / 100.  Timestamps are counted in  *)
(* half days: timestamp t falls on calendar day t \div 2.                  *)
(***************************************************************************)
EXTENDS Integers, Sequences, FiniteSets, TLC

VARIABLES
    cache,                \* st.cache_data's stored return value of load_and_clean_data
    influencers, posts, tracking, payouts,   \* the script's four table objects
    sel,                  \* the sidebar widgets' values
    phase,                \* "pending": a run is due; "ran": the run is over
    status,               \* per section: how the last run left it
    filtered_influencers, filtered_tracking,
    merged_posts, roas_df, roi_df, incremental_df,
    top_influencers, poor_roas

vars == <<cache, influencers, posts, tracking, payouts, sel, phase, status,
          filtered_influencers, filtered_tracking, merged_posts, roas_df,
          roi_df, incremental_df, top_influencers, poor_roas>>

---------------------------------------------------------------------------
(* Cell values *)

Num(n) == [k |-> "num", v |-> n]
NaN == [k |-> "nan", v |-> 0]
Text == [k |-> "text", v |-> 0]
DateStr(t) == [k |-> "datestr", v |-> t]
PosInf == [k |-> "inf", v |-> 1]
NegInf == [k |-> "inf", v |-> -1]

IsNum(x) == x.k = "num"

Abs(n) == IF n < 0 THEN -n ELSE n

Min(S) == CHOOSE x \in S : \A y \in S : x <= y
Max(S) == CHOOSE x \in S : \A y \in S : x >= y

\* The rows of s that satisfy Test, in order, as a sequence.
Range(s) == {s[i] : i \in 1..Len(s)}

SeqsUpTo(S, n) == UNION {[1..k -> S] : k \in 0..n}

RECURSIVE Concat(_)
Concat(ss) == IF Len(ss) = 0 THEN <<>> ELSE Head(ss) \o Concat(Tail(ss))

RECURSIVE SumSeq(_)
SumSeq(s) == IF Len(s) = 0 THEN 0 ELSE Head(s) + SumSeq(Tail(s))

RECURSIVE SortedSeq(_)
SortedSeq(S) == IF S = {} THEN <<>> ELSE <<Min(S)>> \o SortedSeq(S \ {Min(S)})

\* pd.to_numeric(column, errors='coerce'): what is no number becomes NaN.
ToNumeric(x) == IF IsNum(x) THEN x ELSE NaN

\* pd.to_datetime(column, errors='coerce'): a date text becomes its timestamp,
\* what is no date becomes NaT.
ToDatetime(x) ==
    IF x.k = "datestr" THEN Num(x.v) ELSE IF IsNum(x) THEN x ELSE NaN

\* Series.fillna(0)
FillNa0(x) == IF x.k = "nan" THEN Num(0) ELSE x

\* Timestamp.date(): the calendar day of a timestamp.
DateOf(t) == t \div 2

---------------------------------------------------------------------------
(* Float quotients.  [n, d] with d > 0 is the number n / d; d = 0 is what  *)
(* float division by zero gives: inf for n > 0, -inf for n < 0, NaN for    *)
(* n = 0.                                                                  *)

Quot(a, b) == IF b < 0 THEN [n |-> -a, d |-> -b] ELSE [n |-> a, d |-> b]
QZero == [n |-> 0, d |-> 1]
QIsInf(q) == q.d = 0 /\ q.n # 0
QIsNaN(q) == q.d = 0 /\ q.n = 0

\* Series.replace([inf, -inf], 0)
ReplaceInf0(q) == IF QIsInf(q) THEN QZero ELSE q
\* Series.fillna(0) on a quotient
QFillNa0(q) == IF QIsNaN(q) THEN QZero ELSE q

\* n / d (d > 0) rounded to the nearest integer, a tie going to the even one.
RoundHalfEven(n, d) ==
    LET q == n \div d
        r == n % d
    IN  IF 2 * r < d THEN q
        ELSE IF 2 * r > d THEN q + 1
        ELSE IF q % 2 = 0 THEN q ELSE q + 1

\* Series.round(2): the quotient in hundredths; inf and NaN stay as they are.
Round2(q) ==
    IF QIsNaN(q) THEN NaN
    ELSE IF QIsInf(q) THEN (IF q.n > 0 THEN PosInf ELSE NegInf)
    ELSE Num(RoundHalfEven(100 * q.n, q.d))

---------------------------------------------------------------------------
(* Tables.  A table is [cols, rows]: the set of its column names and the   *)
(* sequence of its rows.  A row is a record with a field for every column  *)
(* the pipeline reads; the field of a column the table lacks holds NoStr   *)
(* or NaN and is never read.  The three spellings of the follower column   *)
(* share the field followers, the four of the date column the field date.  *)
(* The name column is kept as a column name only: no step reads its cells. *)

NoStr == ""

RowsOf(t) == Range(t.rows)

\* lines 44-56: the columns the sidebar cannot do without
RequiredMissing(inf, trk) ==
    "platform" \notin inf.cols \/ "campaign" \notin trk.cols

\* lines 102-108: the first spelling of the follower column the table has
FollowerCol(cols) ==
    IF "follower count" \in cols THEN "follower count"
    ELSE IF "follower_count" \in cols THEN "follower_count"
    ELSE IF "followers" \in cols THEN "followers"
    ELSE NoStr

\* line 112: influencers[follower_col] = pd.to_numeric(..., errors='coerce'),
\* written into the influencers table itself
CoerceFollowers(inf) ==
    IF FollowerCol(inf.cols) = NoStr THEN inf
    ELSE [inf EXCEPT !.rows =
            [i \in 1..Len(inf.rows) |->
                [inf.rows[i] EXCEPT !.followers = ToNumeric(@)]]]

FollowerNumbers(inf) == {r.followers.v : r \in {x \in RowsOf(inf) : IsNum(x.followers)}}

DefaultMaxFollowers == 1000000

\* lines 113-114, on the coerced table
MinFollowers(inf) ==
    IF FollowerNumbers(inf) = {} THEN 0 ELSE Min(FollowerNumbers(inf))
MaxFollowers(inf) ==
    IF FollowerNumbers(inf) = {} THEN DefaultMaxFollowers ELSE Max(FollowerNumbers(inf))

\* lines 139-144: the first spelling of the date column the posts table has
DateCol(cols) ==
    IF "date" \in cols THEN "date"
    ELSE IF "post_date" \in cols THEN "post_date"
    ELSE IF "campaign_date" \in cols THEN "campaign_date"
    ELSE IF "created_at" \in cols THEN "created_at"
    ELSE NoStr

\* line 148: posts[date_col] = pd.to_datetime(..., errors='coerce'), written
\* into the posts table itself
ParseDates(p) ==
    IF DateCol(p.cols) = NoStr THEN p
    ELSE [p EXCEPT !.rows =
            [i \in 1..Len(p.rows) |-> [p.rows[i] EXCEPT !.date = ToDatetime(@)]]]

PostDays(p) == {DateOf(r.date.v) : r \in {x \in RowsOf(p) : IsNum(x.date)}}

\* lines 146-162: the date widget exists when there is a date column and
\* the minimum of the parsed column is a date.  With no parsed date the
\* minimum is NaT, the widget call raises and the bare except leaves
\* selected_date_range = None.
HasDateWidget(p) == DateCol(p.cols) # NoStr /\ PostDays(ParseDates(p)) # {}

---------------------------------------------------------------------------
(* The sidebar widgets.  A multiselect holds a set of its options; the     *)
(* selection of a widget that was not created is None, which the script    *)
(* only ever tests for truth, as it does the empty list: both are {}.      *)

\* lines 59-64, 67-72, 75-85, 88-99, 128-136: the options of a multiselect
PlatformOptions(inf) == {r.platform : r \in RowsOf(inf)}
CampaignOptions(trk) == {r.campaign : r \in RowsOf(trk)}
ProductOptions(trk) ==
    IF "product" \in trk.cols THEN {r.product : r \in RowsOf(trk)} ELSE {}
CategoryOptions(inf) ==
    IF "category" \in inf.cols THEN {r.category : r \in RowsOf(inf)} ELSE {}
GenderOptions(inf) ==
    IF "gender" \in inf.cols THEN {r.gender : r \in RowsOf(inf)} ELSE {}

NoRange == [on |-> FALSE, lo |-> 0, hi |-> 0]
NoDates == [n |-> 0, start |-> 0, end |-> 0]

\* lines 116-125: the slider's pairs lo <= hi between min_followers and
\* max_followers (the stops tried are the bounds and the counts that occur)
FollowerRanges(inf) ==
    IF FollowerCol(inf.cols) = NoStr THEN {NoRange}
    ELSE LET c == CoerceFollowers(inf)
             stops == {MinFollowers(c), MaxFollowers(c)} \cup FollowerNumbers(c)
         IN  {[on |-> TRUE, lo |-> p[1], hi |-> p[2]] :
                 p \in {x \in stops \X stops : x[1] <= x[2]}}

\* lines 152-158: st.date_input returns one date while the user is picking
\* (n = 1) or a pair start <= end between min_date and max_date (n = 2)
DateRanges(p) ==
    IF ~HasDateWidget(p) THEN {NoDates}
    ELSE LET days == Min(PostDays(ParseDates(p)))..Max(PostDays(ParseDates(p)))
         IN  {[n |-> 1, start |-> d, end |-> d] : d \in days}
             \cup {[n |-> 2, start |-> x[1], end |-> x[2]] :
                      x \in {y \in days \X days : y[1] <= y[2]}}

\* every value the widgets can hold for the loaded tables c
WidgetValues(c) ==
    [platforms  : SUBSET PlatformOptions(c.influencers),
     campaigns  : SUBSET CampaignOptions(c.tracking),
     products   : SUBSET ProductOptions(c.tracking),
     categories : SUBSET CategoryOptions(c.influencers),
     genders    : SUBSET GenderOptions(c.influencers),
     followers  : FollowerRanges(c.influencers),
     dates      : DateRanges(c.posts)]

\* the default= / value= arguments of the widgets: everything selected
DefaultSel(c) ==
    [platforms  |-> PlatformOptions(c.influencers),
     campaigns  |-> CampaignOptions(c.tracking),
     products   |-> ProductOptions(c.tracking),
     categories |-> CategoryOptions(c.influencers),
     genders    |-> GenderOptions(c.influencers),
     followers  |->
        IF FollowerCol(c.influencers.cols) = NoStr THEN NoRange
        ELSE [on |-> TRUE,
              lo |-> MinFollowers(CoerceFollowers(c.influencers)),
              hi |-> MaxFollowers(CoerceFollowers(c.influencers))],
     dates      |->
        IF ~HasDateWidget(c.posts) THEN NoDates
        ELSE [n |-> 2,
              start |-> Min(PostDays(ParseDates(c.posts))),
              end   |-> Max(PostDays(ParseDates(c.posts)))]]

---------------------------------------------------------------------------
(* Apply All Filters, lines 175-200 *)

InRange(x, lo, hi) == IsNum(x) /\ lo <= x.v /\ x.v <= hi

\* line 175
ByPlatform(rows, s) == SelectSeq(rows, LAMBDA r : r.platform \in s.platforms)
\* lines 184-186: skipped when the selection is empty or None
ByCategory(rows, cols, s) ==
    IF s.categories # {} /\ "category" \in cols
    THEN SelectSeq(rows, LAMBDA r : r.category \in s.categories)
    ELSE rows
\* lines 190-194: a NaN count compares false with both bounds
ByFollowers(rows, cols, s) ==
    IF s.followers.on /\ FollowerCol(cols) # NoStr
    THEN SelectSeq(rows, LAMBDA r : InRange(r.followers, s.followers.lo, s.followers.hi))
    ELSE rows
\* a slip: the gender filter is applied to an empty selection too
ByGenderStrict(rows, s) == SelectSeq(rows, LAMBDA r : r.gender \in s.genders)

\* lines 198-199
ByGender(rows, s) ==
    IF s.genders # {}
    THEN SelectSeq(rows, LAMBDA r : r.gender \in s.genders)
    ELSE rows

FilterInfluencers(inf, s) ==
    [cols |-> inf.cols,
     rows |-> ByGender(ByFollowers(ByCategory(ByPlatform(inf.rows, s), inf.cols, s),
                                   inf.cols, s), s)]

\* line 176
ByCampaign(rows, s) == SelectSeq(rows, LAMBDA r : r.campaign \in s.campaigns)
\* lines 179-180
ByProduct(rows, cols, s) ==
    IF s.products # {} /\ "product" \in cols
    THEN SelectSeq(rows, LAMBDA r : r.product \in s.products)
    ELSE rows

FilterTracking(trk, s) ==
    [cols |-> trk.cols, rows |-> ByProduct(ByCampaign(trk.rows, s), trk.cols, s)]

---------------------------------------------------------------------------
(* Joins.  pd.merge(how='inner') keeps the order of the left rows and,     *)
(* for each, the matching right rows in their order.                       *)

(* A join is the sequence of pairs <<i, j>> of a left and a right row     *)
(* index with equal keys; the tables' rows are then built from the pairs.  *)

\* the key column of a table
Column(rows, col) == [i \in 1..Len(rows) |-> rows[i][col]]

\* the indexes of the right keys equal to key, in order
MatchesOf(rkeys, key) ==
    SelectSeq([j \in 1..Len(rkeys) |-> j], LAMBDA j : rkeys[j] = key)

InnerJoin(lkeys, rkeys) ==
    Concat([i \in 1..Len(lkeys) |->
              LET m == MatchesOf(rkeys, lkeys[i])
              IN  [j \in 1..Len(m) |-> <<i, m[j]>>]])

\* pd.merge(how='left'): a left row with no match is kept once, <<i, 0>>.
LeftJoin(lkeys, rkeys) ==
    Concat([i \in 1..Len(lkeys) |->
              LET m == MatchesOf(rkeys, lkeys[i])
              IN  IF Len(m) = 0 THEN << <<i, 0>> >>
                  ELSE [j \in 1..Len(m) |-> <<i, m[j]>>]])

---------------------------------------------------------------------------
(* Post Performance, lines 234-259 *)

\* lines 234-239
PostKeysMissing(p, inf) == "influencer_id" \notin p.cols \/ "id" \notin inf.cols

\* a slip: platform_x, the post's, is preferred
MergedPlatformOfPost(pcols, icols, post, infl) ==
    IF "platform" \in pcols THEN post.platform ELSE infl.platform

\* lines 245-251: platform_y, the influencer's, when both tables have one
MergedPlatform(pcols, icols, post, infl) ==
    IF "platform" \in pcols /\ "platform" \in icols THEN infl.platform
    ELSE IF "platform" \in pcols THEN post.platform
    ELSE infl.platform

\* line 251: neither table has a platform column
NoPlatformAfterMerge(p, inf) == "platform" \notin p.cols /\ "platform" \notin inf.cols

\* line 242
MergePosts(p, fi) ==
    LET ix == InnerJoin(Column(p.rows, "influencer_id"), Column(fi.rows, "id"))
    IN  [k \in 1..Len(ix) |->
           LET post == p.rows[ix[k][1]]
               infl == fi.rows[ix[k][2]]
           IN  [influencer_id |-> post.influencer_id,
                platform      |-> MergedPlatform(p.cols, fi.cols, post, infl),
                platform_x    |-> post.platform,
                date          |-> post.date]]

\* lines 254-259: only a pair of dates filters; a NaT date compares false
ByDate(rows, pcols, s) ==
    IF s.dates.n = 2 /\ DateCol(pcols) # NoStr
    THEN SelectSeq(rows, LAMBDA r : IsNum(r.date)
                                     /\ DateOf(r.date.v) >= s.dates.start
                                     /\ DateOf(r.date.v) <= s.dates.end)
    ELSE rows

MergedPosts(p, fi, s) == ByDate(MergePosts(p, fi), p.cols, s)

---------------------------------------------------------------------------
(* ROAS, lines 277-303 *)

\* lines 279-289: a missing column ends in st.stop()
RoasMissing(trk, pay, inf) ==
    \/ ~({"influencer_id", "revenue"} \subseteq trk.cols)
    \/ ~({"influencer_id", "total_payout"} \subseteq pay.cols)
    \/ ~({"id", "name"} \subseteq inf.cols)

IsBadCell(x) == x.k \in {"text", "datestr"}

\* the sum of a column's numbers: Series.sum() skips NaN
SumOf(cells) == SumSeq([i \in 1..Len(cells) |-> IF IsNum(cells[i]) THEN cells[i].v ELSE 0])

\* lines 292-293: groupby('influencer_id')['revenue'].sum().reset_index()
RevenueDf(ft) ==
    LET ids == SortedSeq({r.influencer_id : r \in Range(ft)})
    IN  [i \in 1..Len(ids) |->
           [influencer_id |-> ids[i],
            total_revenue |->
               SumOf([j \in 1..Len(SelectSeq(ft, LAMBDA r : r.influencer_id = ids[i])) |->
                        SelectSeq(ft, LAMBDA r : r.influencer_id = ids[i])[j].revenue])]]

\* a slip: the payouts are not restricted to the filtered influencers
FilteredPayoutsUnrestricted(pay, fi) == pay.rows

\* lines 296-297
FilteredPayouts(pay, fi) ==
    SelectSeq(pay.rows, LAMBDA r : r.influencer_id \in {x.id : x \in Range(fi.rows)})

\* Arithmetic on a cell that holds text raises TypeError, which the
\* section's except catches.  The revenue sum of line 292 raises before
\* roas_df is assigned (line 300), the division of line 302 after it.
RoasSumRaises(ft) == \E r \in Range(ft) : IsBadCell(r.revenue)
RoasDivisionRaises(fp) == \E r \in Range(fp) : IsBadCell(r.total_payout)
RoasRaises(ft, fp) == RoasSumRaises(ft) \/ RoasDivisionRaises(fp)

\* line 302: (total_revenue / total_payout).round(2), a float division
RoasOf(total_revenue, total_payout) ==
    IF IsNum(total_revenue) /\ IsNum(total_payout)
    THEN Round2(Quot(total_revenue.v, total_payout.v))
    ELSE NaN

\* lines 300-303
RoasDf(ft, pay, fi) ==
    LET fp == FilteredPayouts(pay, fi)
        rev == RevenueDf(ft)
        ix == LeftJoin(Column(fp, "influencer_id"), Column(rev, "influencer_id"))
        withRevenue ==
            [k \in 1..Len(ix) |->
               LET p == fp[ix[k][1]]
               IN  [influencer_id |-> p.influencer_id,
                    total_payout  |-> p.total_payout,
                    total_revenue |->
                        IF ix[k][2] = 0 THEN FillNa0(NaN)
                        ELSE FillNa0(Num(rev[ix[k][2]].total_revenue))]]
        withRoas ==
            [i \in 1..Len(withRevenue) |->
               [influencer_id |-> withRevenue[i].influencer_id,
                total_payout  |-> withRevenue[i].total_payout,
                total_revenue |-> withRevenue[i].total_revenue,
                roas |-> RoasOf(withRevenue[i].total_revenue, withRevenue[i].total_payout)]]
        names == LeftJoin(Column(withRoas, "influencer_id"), Column(fi.rows, "id"))
    IN  [k \in 1..Len(names) |-> withRoas[names[k][1]]]

---------------------------------------------------------------------------
(* ROI, lines 345-363 *)

\* lines 345-347: the copy of payouts with payout_amount renamed to
\* total_payout, whether or not the table already has a total_payout; when
\* it has, the copy holds two columns of that name (dup)
PayoutsRoi(pay) ==
    IF "payout_amount" \in pay.cols
    THEN [cols |-> (pay.cols \ {"payout_amount"}) \cup {"total_payout"},
          dup  |-> "total_payout" \in pay.cols,
          rows |-> [i \in 1..Len(pay.rows) |->
                      [pay.rows[i] EXCEPT !.total_payout = pay.rows[i].payout_amount,
                                          !.payout_amount = NaN]]]
    ELSE [cols |-> pay.cols, dup |-> FALSE, rows |-> pay.rows]

\* lines 348-350: st.stop()
RoiMissing(pay) == "payout_amount" \notin pay.cols /\ "total_payout" \notin pay.cols

\* lines 353-355 raise, outside any try: a join key or revenue is no
\* column, or roi_df['total_payout'] is two columns, which pd.to_numeric
\* refuses
RoiRaises(ft, proi) ==
    \/ "influencer_id" \notin ft.cols \/ "influencer_id" \notin proi.cols
    \/ "revenue" \notin ft.cols
    \/ proi.dup

\* a slip: the division without the test for a payout of 0
RoiOfUnguarded(revenue, total_payout) ==
    Round2(Quot(100 * (revenue - total_payout), total_payout))

\* lines 358-363
RoiOf(revenue, total_payout) ==
    Round2(IF total_payout # 0
           THEN Quot(100 * (revenue - total_payout), total_payout)
           ELSE QZero)

\* lines 353-363
RoiDf(ft, proi) ==
    LET ix == InnerJoin(Column(ft.rows, "influencer_id"),
                        Column(proi.rows, "influencer_id"))
    IN  [k \in 1..Len(ix) |->
           LET t == ft.rows[ix[k][1]]
               p == proi.rows[ix[k][2]]
               revenue == FillNa0(ToNumeric(t.revenue))
               total_payout == FillNa0(ToNumeric(p.total_payout))
           IN  [influencer_id |-> t.influencer_id,
                campaign      |-> t.campaign,
                revenue       |-> revenue,
                total_payout  |-> total_payout,
                roi           |-> RoiOf(revenue.v, total_payout.v)]]

---------------------------------------------------------------------------
(* Incremental ROAS, lines 383-450 *)

\* lines 392-397: reported with st.warning, the section is left
IncrementalMissing(ft) == ~({"influencer_id", "revenue", "orders"} \subseteq ft.cols)

\* an exception inside the section's try: a column read after the merge
\* (line 425) is missing or double
IncrementalRaises(proi) ==
    "influencer_id" \notin proi.cols \/ "total_payout" \notin proi.cols \/ proi.dup

\* a slip: the payouts side's orders kept in place of the tracking side's
MergedDfPayoutOrders(ft, proi) ==
    LET ix == InnerJoin(Column(ft.rows, "influencer_id"),
                        Column(proi.rows, "influencer_id"))
    IN  [k \in 1..Len(ix) |->
           LET t == ft.rows[ix[k][1]]
               p == proi.rows[ix[k][2]]
           IN  [influencer_id |-> t.influencer_id,
                revenue       |-> FillNa0(ToNumeric(t.revenue)),
                orders        |-> FillNa0(ToNumeric(p.orders)),
                total_payout  |-> FillNa0(ToNumeric(p.total_payout))]]

\* lines 400-425: the tracking side's orders is kept (orders_tracking), the
\* payouts side's is dropped (orders_payouts)
MergedDf(ft, proi) ==
    LET ix == InnerJoin(Column(ft.rows, "influencer_id"),
                        Column(proi.rows, "influencer_id"))
    IN  [k \in 1..Len(ix) |->
           LET t == ft.rows[ix[k][1]]
               p == proi.rows[ix[k][2]]
           IN  [influencer_id |-> t.influencer_id,
                revenue       |-> FillNa0(ToNumeric(t.revenue)),
                orders        |-> FillNa0(ToNumeric(t.orders)),
                total_payout  |-> FillNa0(ToNumeric(p.total_payout))]]

\* a slip: the division without the replacement of inf and NaN
IRoasOfUnclamped(revenue, orders) == Round2(Quot(revenue, orders))

\* lines 435-437
IRoasOf(revenue, orders) == Round2(QFillNa0(ReplaceInf0(Quot(revenue, orders))))

\* lines 428-437: one row per influencer_id of the merge, keys ascending
IncrementalDf(ft, proi) ==
    LET m == MergedDf(ft, proi)
        ids == SortedSeq({r.influencer_id : r \in Range(m)})
        grp(id) == SelectSeq(m, LAMBDA r : r.influencer_id = id)
        sum(id, f(_)) == SumSeq([j \in 1..Len(grp(id)) |-> f(grp(id)[j])])
    IN  [i \in 1..Len(ids) |->
           LET orders == sum(ids[i], LAMBDA r : r.orders.v)
               revenue == sum(ids[i], LAMBDA r : r.revenue.v)
           IN  [influencer_id |-> ids[i],
                orders        |-> orders,
                revenue       |-> revenue,
                total_payout  |-> sum(ids[i], LAMBDA r : r.total_payout.v),
                iROAS         |-> IRoasOf(revenue, orders)]]

---------------------------------------------------------------------------
(* Insights, lines 456-465 *)

TopN == 5

\* float comparison of two roas cells; every comparison with NaN is false
Lt(a, b) ==
    /\ a.k # "nan" /\ b.k # "nan"
    /\ \/ a.k = "num" /\ b.k = "num" /\ a.v < b.v
       \/ a.k = "inf" /\ a.v < 0 /\ ~(b.k = "inf" /\ b.v < 0)
       \/ b.k = "inf" /\ b.v > 0 /\ ~(a.k = "inf" /\ a.v > 0)

\* DataFrame.sort_values('roas', ascending=...): NaN rows last, rows of
\* equal roas in their order in the table
\* x comes before y in the sort order
Before(x, y, ascending) ==
    IF ascending THEN Lt(x.roas, y.roas) ELSE Lt(y.roas, x.roas)

RECURSIVE InsertBy(_, _, _)
InsertBy(sorted, x, ascending) ==
    IF Len(sorted) = 0 THEN <<x>>
    ELSE IF Before(x, Head(sorted), ascending) THEN <<x>> \o sorted
    ELSE <<Head(sorted)>> \o InsertBy(Tail(sorted), x, ascending)

RECURSIVE SortBy(_, _)
SortBy(rows, ascending) ==
    IF Len(rows) = 0 THEN <<>>
    ELSE InsertBy(SortBy(SubSeq(rows, 1, Len(rows) - 1), ascending),
                  rows[Len(rows)], ascending)

SortByRoas(rows, ascending) ==
    SortBy(SelectSeq(rows, LAMBDA r : r.roas.k # "nan"), ascending)
    \o SelectSeq(rows, LAMBDA r : r.roas.k = "nan")

\* DataFrame.head(n)
HeadN(rows, n) == SubSeq(rows, 1, IF Len(rows) < n THEN Len(rows) ELSE n)

\* a slip: the first rows of the table, unsorted
TopInfluencersUnsorted(rows) == HeadN(rows, TopN)

\* line 458
TopInfluencers(rows) == HeadN(SortByRoas(rows, FALSE), TopN)

\* line 463: roas < 1 is roas * 100 < 100
PoorRoas(rows) ==
    HeadN(SortByRoas(SelectSeq(rows, LAMBDA r : Lt(r.roas, Num(100))), TRUE), TopN)

---------------------------------------------------------------------------
(* Filter Impact Summary, lines 524-537 *)

\* lines 524-526 and 530-534 raise, outside any try: roas_df was never
\* assigned (NameError), or a sum runs over a cell that holds text.  A
\* roas_df that was assigned but has no roas column gives avg_roas = 0.
SummaryRaises(roasAssigned, ft) ==
    \/ ~roasAssigned
    \/ "revenue" \in ft.cols /\ \E r \in Range(ft.rows) : IsBadCell(r.revenue)
    \/ "orders" \in ft.cols /\ \E r \in Range(ft.rows) : IsBadCell(r.orders)

---------------------------------------------------------------------------
(* One run of the script.  A section's status after the run:               *)
(*   "ok"          it ran to its end                                       *)
(*   "unavailable" it reported a missing column and went on (st.warning)   *)
(*   "error"       it raised inside its try; its except reported it        *)
(*                 (after ROAS raised, roas_df is kept as the empty table) *)
(*   "stopped"     it called st.stop(): the run ended there                *)
(*   "crashed"     it raised outside any try: the run ended there          *)
(*   "skipped"     the run ended before it                                 *)
(* st.stop() raises a control exception that is no Exception: the          *)
(* section's except Exception does not catch it.                           *)

Sections == {"sidebar", "posts", "roas", "roi", "iroas", "insights", "summary"}

NoRun == [x \in Sections |-> "skipped"]

\* the statuses of a run over the loaded tables c with the widget values s
RunStatus(c, s) ==
    LET inf == CoerceFollowers(c.influencers)
        fi == FilterInfluencers(inf, s)
        ft == FilterTracking(c.tracking, s)
        sidebar == IF RequiredMissing(c.influencers, c.tracking) THEN "stopped" ELSE "ok"
        postsSt == IF sidebar # "ok" THEN "skipped"
                   ELSE IF PostKeysMissing(c.posts, inf)
                           \/ NoPlatformAfterMerge(c.posts, inf) THEN "stopped"
                   ELSE "ok"
        roas == IF postsSt # "ok" THEN "skipped"
                ELSE IF RoasMissing(c.tracking, c.payouts, inf) THEN "stopped"
                ELSE IF RoasRaises(ft.rows, FilteredPayouts(c.payouts, fi)) THEN "error"
                ELSE "ok"
        roi == IF roas \in {"skipped", "stopped"} THEN "skipped"
               ELSE IF RoiMissing(c.payouts) THEN "stopped"
               ELSE IF RoiRaises(ft, PayoutsRoi(c.payouts)) THEN "crashed"
               ELSE "ok"
        iroas == IF roi # "ok" THEN "skipped"
                 ELSE IF IncrementalMissing(ft) THEN "unavailable"
                 ELSE IF IncrementalRaises(PayoutsRoi(c.payouts)) THEN "error"
                 ELSE "ok"
        insights == IF roi # "ok" THEN "skipped"
                    ELSE IF roas # "ok" THEN "error"
                    ELSE "ok"
        summary == IF roi # "ok" THEN "skipped"
                   ELSE IF SummaryRaises(roas = "ok" \/ ~RoasSumRaises(ft.rows), ft)
                   THEN "crashed"
                   ELSE "ok"
    IN  [sidebar |-> sidebar, posts |-> postsSt, roas |-> roas, roi |-> roi,
         iroas |-> iroas, insights |-> insights, summary |-> summary]

NoTable == [cols |-> {}, rows |-> <<>>]

\* The script, top to bottom (lines 32-550), on the widget values sel.
RunScript ==
    /\ phase = "pending"
    /\ LET st == RunStatus(cache, sel)
           live == st.sidebar = "ok"
           inf == IF live THEN CoerceFollowers(influencers) ELSE influencers
           pst == IF live THEN ParseDates(posts) ELSE posts
           fi == FilterInfluencers(inf, sel)
           ft == FilterTracking(tracking, sel)
           proi == PayoutsRoi(payouts)
           roas == IF st.roas = "ok" THEN RoasDf(ft.rows, payouts, fi) ELSE <<>>
       IN  /\ status' = st
           /\ influencers' = inf
           /\ posts' = pst
           /\ filtered_influencers' = IF live THEN fi ELSE NoTable
           /\ filtered_tracking' = IF live THEN ft ELSE NoTable
           /\ merged_posts' = IF st.posts = "ok" THEN MergedPosts(pst, fi, sel) ELSE <<>>
           /\ roas_df' = roas
           /\ roi_df' = IF st.roi = "ok" THEN RoiDf(ft, proi) ELSE <<>>
           /\ incremental_df' = IF st.iroas = "ok" THEN IncrementalDf(ft, proi) ELSE <<>>
           /\ top_influencers' = IF st.insights = "ok" THEN TopInfluencers(roas) ELSE <<>>
           /\ poor_roas' = IF st.insights = "ok" THEN PoorRoas(roas) ELSE <<>>
    /\ phase' = "ran"
    /\ UNCHANGED <<cache, tracking, payouts, sel>>

\* The user changes the sidebar widgets (or presses Reset All Filters,
\* line 165): the script is run again from its first line, in a fresh
\* namespace, and load_and_clean_data hands it a new copy of the cached
\* tables.
ChangeFilters ==
    /\ phase = "ran"
    /\ status.sidebar = "ok"
    /\ \E s \in WidgetValues(cache) : sel' = s
    /\ phase' = "pending"
    /\ influencers' = cache.influencers
    /\ posts' = cache.posts
    /\ tracking' = cache.tracking
    /\ payouts' = cache.payouts
    /\ status' = NoRun
    /\ filtered_influencers' = NoTable
    /\ filtered_tracking' = NoTable
    /\ merged_posts' = <<>>
    /\ roas_df' = <<>>
    /\ roi_df' = <<>>
    /\ incremental_df' = <<>>
    /\ top_influencers' = <<>>
    /\ poor_roas' = <<>>
    /\ UNCHANGED cache

Next == RunScript \/ ChangeFilters

\* the session's first run: load_and_clean_data has returned the tables c
\* (lines 12-36), the widgets hold their defaults
InitOf(c) ==
    /\ cache = c
    /\ influencers = c.influencers
    /\ posts = c.posts
    /\ tracking = c.tracking
    /\ payouts = c.payouts
    /\ sel = DefaultSel(c)
    /\ phase = "pending"
    /\ status = NoRun
    /\ filtered_influencers = NoTable
    /\ filtered_tracking = NoTable
    /\ merged_posts = <<>>
    /\ roas_df = <<>>
    /\ roi_df = <<>>
    /\ incremental_df = <<>>
    /\ top_influencers = <<>>
    /\ poor_roas = <<>>

---------------------------------------------------------------------------
(* The tables a session starts from.  Each specification draws the cached  *)
(* tables from a family that varies what its claims are about and holds    *)
(* the rest fixed.  Influencer ids are unique (id = row number).           *)

MaxTracking == 2
MaxPayouts == 2
MaxInfluencers == 2
MaxPosts == 2
MaxRankRows == 6

Infl(id, platform, category, gender, followers) ==
    [id |-> id, platform |-> platform, category |-> category,
     gender |-> gender, followers |-> followers]
Trk(id, campaign, product, revenue, orders) ==
    [influencer_id |-> id, campaign |-> campaign, product |-> product,
     revenue |-> revenue, orders |-> orders]
Pay(id, total_payout, payout_amount, orders) ==
    [influencer_id |-> id, total_payout |-> total_payout,
     payout_amount |-> payout_amount, orders |-> orders]
Post(id, platform, date) ==
    [influencer_id |-> id, platform |-> platform, date |-> date]

Tables(cols, rowSet, n) == {[cols |-> cols, rows |-> r] : r \in SeqsUpTo(rowSet, n)}

InflCols == {"id", "name", "platform"}
TrkCols == {"influencer_id", "campaign", "revenue", "orders"}
PayCols == {"influencer_id", "total_payout"}

TwoInfluencers ==
    [cols |-> InflCols,
     rows |-> <<Infl(1, "ig", NoStr, NoStr, NaN), Infl(2, "yt", NoStr, NoStr, NaN)>>]
OneInfluencer ==
    [cols |-> InflCols, rows |-> <<Infl(1, "ig", NoStr, NoStr, NaN)>>]
OnePost ==
    [cols |-> {"influencer_id", "platform"}, rows |-> <<Post(1, "ig", NaN)>>]
OneTracking ==
    [cols |-> TrkCols, rows |-> <<Trk(1, "c1", NoStr, Num(100), Num(3))>>]
OnePayout ==
    [cols |-> PayCols, rows |-> <<Pay(1, Num(8), NaN, NaN)>>]

Caches(I, P, T, Y) == [influencers : I, posts : P, tracking : T, payouts : Y]

\* numbers: two influencers, revenue and payouts that divide evenly, round
\* up, round down, tie, and are zero
NumberCaches ==
    Caches({TwoInfluencers}, {OnePost},
           Tables(TrkCols,
                  {Trk(i, "c1", NoStr, c[1], c[2]) :
                      i \in {1, 2}, c \in {<<Num(1), Num(0)>>, <<Num(100), Num(3)>>}},
                  MaxTracking),
           Tables(PayCols,
                  {Pay(i, y, NaN, NaN) : i \in {1, 2}, y \in {Num(0), Num(3), Num(8)}},
                  MaxPayouts))

\* cells that are missing or hold text, and two campaigns
CellCaches ==
    Caches({OneInfluencer}, {OnePost},
           Tables(TrkCols,
                  {Trk(1, g, NoStr, c[1], c[2]) :
                      g \in {"c1", "c2"},
                      c \in {<<Num(100), Num(3)>>, <<NaN, NaN>>, <<Text, Text>>}},
                  MaxTracking),
           Tables(PayCols,
                  {Pay(1, y, NaN, NaN) : y \in {Num(8), NaN, Text}},
                  MaxPayouts))

\* tables that lack a column, or have payout_amount, or orders on both sides
SchemaCaches ==
    Caches({OneInfluencer}, {OnePost},
           {[cols |-> TrkCols \ d,
             rows |-> <<Trk(1, "c1", NoStr,
                            IF "revenue" \in d THEN NaN ELSE Num(100),
                            IF "orders" \in d THEN NaN ELSE Num(3))>>] :
               d \in {{}, {"revenue"}, {"orders"}}},
           {[cols |-> {"influencer_id"} \cup a,
             rows |-> <<Pay(1,
                            IF "total_payout" \in a THEN Num(8) ELSE NaN,
                            IF "payout_amount" \in a THEN Num(3) ELSE NaN,
                            IF "orders" \in a THEN Num(2) ELSE NaN)>>] :
               a \in SUBSET {"total_payout", "payout_amount", "orders"}})

Init == \E c \in SchemaCaches \cup NumberCaches \cup CellCaches : InitOf(c)

Spec == Init /\ [][Next]_vars

\* influencer tables whose row i has id i
InflTables(cols, attrs, n) ==
    {[cols |-> cols,
      rows |-> [i \in 1..Len(a) |-> Infl(i, a[i][1], a[i][2], a[i][3], a[i][4])]] :
        a \in SeqsUpTo(attrs, n)}

\* platform, category and gender, with and without the optional columns
AttributeCaches ==
    Caches(UNION {InflTables(InflCols \cup o,
                             {"ig", "yt"}
                                \X (IF "category" \in o THEN {"fit", "food"} ELSE {NoStr})
                                \X (IF "gender" \in o THEN {"f", "m"} ELSE {NoStr})
                                \X {NaN},
                             MaxInfluencers) :
                     o \in SUBSET {"category", "gender"}},
           {OnePost}, {OneTracking}, {OnePayout})

\* follower counts under each spelling of the column: numbers, missing, text
FollowerCaches ==
    Caches(UNION {InflTables(InflCols \cup {f},
                             {"ig"} \X {NoStr} \X {NoStr} \X {Num(10), Num(20), NaN, Text},
                             MaxInfluencers) :
                     f \in {"follower count", "follower_count", "followers"}},
           {OnePost}, {OneTracking}, {OnePayout})

\* campaigns and products, with and without the product column
ProductCaches ==
    Caches({OneInfluencer}, {OnePost},
           UNION {Tables(TrkCols \cup o,
                         {Trk(1, g, q, Num(100), Num(3)) :
                             g \in {"c1", "c2"},
                             q \in (IF "product" \in o THEN {"p1", "p2"} ELSE {NoStr})},
                         MaxTracking) :
                     o \in SUBSET {"product"}},
           {OnePayout})

InitFilter ==
    \E c \in FollowerCaches \cup AttributeCaches \cup ProductCaches : InitOf(c)

SpecFilter == InitFilter /\ [][Next]_vars

\* posts of known and unknown influencers, with and without a platform
\* and a date column; dates on two days, morning and afternoon, or text
PostCaches ==
    Caches({TwoInfluencers},
           UNION {Tables({"influencer_id"} \cup o \cup d,
                         {Post(i, IF "platform" \in o THEN "tw" ELSE NoStr, t) :
                             i \in {1, 2, 3},
                             t \in (IF d = {} THEN {NaN}
                                    ELSE {DateStr(2), DateStr(5), Text})},
                         MaxPosts) :
                     o \in SUBSET {"platform"}, d \in {{}, {"date"}, {"post_date"}}},
           {OneTracking}, {OnePayout})

InitPosts == \E c \in PostCaches : InitOf(c)

SpecPosts == InitPosts /\ [][Next]_vars

\* up to MaxRankRows payouts of one influencer with revenue 5: a roas of
\* inf, 1.67, 0.62 and 0.25 (of NaN and 0 once the campaign is deselected)
RankCaches ==
    Caches({OneInfluencer}, {OnePost},
           {[cols |-> TrkCols, rows |-> <<Trk(1, "c1", NoStr, Num(5), Num(3))>>]},
           Tables(PayCols,
                  {Pay(1, y, NaN, NaN) : y \in {Num(0), Num(3), Num(8), Num(20)}},
                  MaxRankRows))

InitRank == \E c \in RankCaches : InitOf(c)

SpecRank == InitRank /\ [][Next]_vars

---------------------------------------------------------------------------
(* Properties *)

Ran == phase = "ran"

\* r hundredths is n / d rounded to two decimals: no further from n / d
\* than half a hundredth
NearestHundredth(r, n, d) == d # 0 /\ 2 * Abs(100 * n - r * d) <= Abs(d)

\* the number a cell counts as once non-numeric cells are treated as 0
AsNumber(x) == IF IsNum(x) THEN x.v ELSE 0

FilteredIds == {x.id : x \in Range(filtered_influencers.rows)}

RECURSIVE SumOver(_, _)
SumOver(rows, I) ==
    IF I = {} THEN 0
    ELSE LET i == CHOOSE x \in I : TRUE
         IN  AsNumber(rows[i].revenue) + SumOver(rows, I \ {i})

\* the revenue of the filtered tracking records of influencer id
FilteredRevenue(id) ==
    SumOver(filtered_tracking.rows,
            {i \in 1..Len(filtered_tracking.rows) :
                filtered_tracking.rows[i].influencer_id = id})

\* C1: in every row of the ROAS table roas is a number: total_revenue /
\* total_payout rounded to two decimals when total_payout is not 0, and 0
\* when total_payout is 0; it is never infinite or undefined.
C1_RoasNeverUndefined ==
    (Ran /\ status.roas = "ok") =>
        \A i \in 1..Len(roas_df) :
            LET r == roas_df[i]
            IN  /\ IsNum(r.roas)
                /\ IsNum(r.total_payout) /\ r.total_payout.v # 0 =>
                       NearestHundredth(r.roas.v, r.total_revenue.v, r.total_payout.v)
                /\ r.total_payout = Num(0) => r.roas = Num(0)

\* the pairs (filtered tracking record, payout row) of equal influencer_id
RoiPairs ==
    {x \in (1..Len(filtered_tracking.rows)) \X (1..Len(payouts.rows)) :
        filtered_tracking.rows[x[1]].influencer_id = payouts.rows[x[2]].influencer_id}

\* row is the ROI row of the tracking record t and the payout row p
IsRoiRowOf(row, t, p) ==
    LET revenue == AsNumber(t.revenue)
        total_payout == AsNumber(p.total_payout)
    IN  /\ row.influencer_id = t.influencer_id
        /\ row.campaign = t.campaign
        /\ row.revenue = Num(revenue)
        /\ row.total_payout = Num(total_payout)
        /\ IsNum(row.roi)
        /\ total_payout # 0 =>
               NearestHundredth(row.roi.v, 100 * (revenue - total_payout), total_payout)
        /\ total_payout = 0 => row.roi = Num(0)

\* C2: the ROI table has one row per pair (filtered tracking record,
\* payout row) of equal influencer_id, and each row's roi (%) is
\* ((revenue - total_payout) / total_payout) * 100 rounded to two decimals,
\* or 0 when total_payout is 0, non-numeric cells counting as 0.
C2_RoiTable ==
    (Ran /\ status.roi = "ok") =>
        /\ Len(roi_df) = Cardinality(RoiPairs)
        /\ \A x \in RoiPairs : \E k \in 1..Len(roi_df) :
               IsRoiRowOf(roi_df[k], filtered_tracking.rows[x[1]], payouts.rows[x[2]])
        /\ \A k \in 1..Len(roi_df) : \E x \in RoiPairs :
               IsRoiRowOf(roi_df[k], filtered_tracking.rows[x[1]], payouts.rows[x[2]])

\* C2's case: a row whose revenue cell held text, a row whose payout cell
\* was missing, and a row with a payout that is not 0
C2_Witness ==
    /\ Ran /\ status.roi = "ok"
    /\ \E x \in RoiPairs :
          /\ filtered_tracking.rows[x[1]].revenue = Text
          /\ payouts.rows[x[2]].total_payout = Num(8)
    /\ \E x \in RoiPairs : payouts.rows[x[2]].total_payout = NaN
    /\ \E k \in 1..Len(roi_df) : roi_df[k].roi = Num(115000)
    /\ \E k \in 1..Len(roi_df) : roi_df[k].roi = Num(-10000)

\* the influencer ids of the inner join of filtered tracking and payouts
JoinedIds ==
    {filtered_tracking.rows[x[1]].influencer_id : x \in RoiPairs}

\* C3: the incremental-ROAS table has one row per influencer_id of the
\* inner join of filtered tracking and payouts; iROAS is summed revenue /
\* summed orders rounded to two decimals, or 0 when summed orders is 0;
\* it is never infinite or undefined.
C3_IncrementalRoas ==
    (Ran /\ status.iroas = "ok") =>
        /\ Len(incremental_df) = Cardinality(JoinedIds)
        /\ {incremental_df[k].influencer_id : k \in 1..Len(incremental_df)} = JoinedIds
        /\ \A k \in 1..Len(incremental_df) :
               LET r == incremental_df[k]
               IN  /\ IsNum(r.iROAS)
                   /\ r.orders # 0 => NearestHundredth(r.iROAS.v, r.revenue, r.orders)
                   /\ r.orders = 0 => r.iROAS = Num(0)

\* C3's case: one row with no orders and some revenue, one with a ratio
\* that does not end after two decimals
C3_Witness ==
    /\ Ran /\ status.iroas = "ok"
    /\ \E k \in 1..Len(incremental_df) :
          /\ incremental_df[k].orders = 0
          /\ incremental_df[k].revenue > 0
          /\ incremental_df[k].iROAS = Num(0)
    /\ \E k \in 1..Len(incremental_df) :
          /\ incremental_df[k].orders = 3
          /\ incremental_df[k].revenue = 100
          /\ incremental_df[k].iROAS = Num(3333)

\* C7 (after a ROAS failure): when ROAS is unavailable (a column it needs
\* is missing, or it raised), the run still reaches ROI, incremental ROAS
\* and the insights, and completes the filter-impact summary.
C7_SiblingsStillRun ==
    (Ran /\ status.roas \in {"stopped", "error"}) =>
        /\ status.roi # "skipped"
        /\ status.iroas # "skipped"
        /\ status.insights # "skipped"
        /\ status.summary = "ok"

\* C7 (after an ROI failure): the run still reaches incremental ROAS and
\* the insights, and completes the filter-impact summary.
C7_SiblingsStillRunAfterRoi ==
    (Ran /\ status.roi \in {"stopped", "crashed"}) =>
        /\ status.iroas # "skipped"
        /\ status.insights # "skipped"
        /\ status.summary = "ok"

PayoutCount(id) ==
    Cardinality({j \in 1..Len(payouts.rows) : payouts.rows[j].influencer_id = id})
RoasCount(id) ==
    Cardinality({k \in 1..Len(roas_df) : roas_df[k].influencer_id = id})

\* every row's total_revenue is the revenue of its influencer's filtered
\* tracking records (0 when there is none)
RoasRevenueIsSum ==
    \A k \in 1..Len(roas_df) :
        roas_df[k].total_revenue = Num(FilteredRevenue(roas_df[k].influencer_id))

\* C8 as stated: the ROAS table has exactly one row per influencer that
\* has a payout and is a filtered influencer, none for any other
\* influencer, and total_revenue is the sum of the influencer's filtered
\* tracking revenue.
C8_OneRowPerInfluencer ==
    (Ran /\ status.roas = "ok") =>
        /\ \A k \in 1..Len(roas_df) : roas_df[k].influencer_id \in FilteredIds
        /\ \A id \in FilteredIds : PayoutCount(id) > 0 => RoasCount(id) = 1
        /\ RoasRevenueIsSum

\* C8 as amended: the ROAS table has exactly one row per payout row whose
\* influencer_id is a filtered influencer's (an influencer with several
\* payout rows has as many rows), none for any other influencer, and
\* total_revenue is the sum of the influencer's filtered tracking revenue,
\* 0 when it has no filtered tracking record.
C8_OneRowPerPayout ==
    (Ran /\ status.roas = "ok") =>
        /\ \A k \in 1..Len(roas_df) : roas_df[k].influencer_id \in FilteredIds
        /\ \A id \in FilteredIds : RoasCount(id) = PayoutCount(id)
        /\ RoasRevenueIsSum

\* C8's case: a payout kept with no filtered tracking record, beside one
\* whose influencer has two
C8_Witness ==
    /\ Ran /\ status.roas = "ok"
    /\ \E k \in 1..Len(roas_df) :
          /\ roas_df[k].total_revenue = Num(0)
          /\ \A i \in 1..Len(filtered_tracking.rows) :
                filtered_tracking.rows[i].influencer_id # roas_df[k].influencer_id
    /\ \E k \in 1..Len(roas_df) :
          /\ roas_df[k].total_revenue = Num(101)
          /\ Len(filtered_tracking.rows) = 2

\* the filter C4 states: every dimension whose column exists filters
KeepsInfluencer(r) ==
    /\ r.platform \in sel.platforms
    /\ "category" \in influencers.cols => r.category \in sel.categories
    /\ "gender" \in influencers.cols => r.gender \in sel.genders
    /\ FollowerCol(influencers.cols) # NoStr =>
           InRange(r.followers, sel.followers.lo, sel.followers.hi)
KeepsTracking(r) ==
    /\ r.campaign \in sel.campaigns
    /\ "product" \in tracking.cols => r.product \in sel.products

\* C4 as stated: the filtered influencer table holds exactly the rows whose
\* platform, category, gender and follower count are in the selection
\* (each optional one when its column exists), the filtered tracking table
\* exactly the rows whose campaign and product are; only a dimension whose
\* column is absent passes all rows.
C4_ExactlyTheSelected ==
    (Ran /\ status.sidebar = "ok") =>
        /\ filtered_influencers.rows = SelectSeq(influencers.rows, KeepsInfluencer)
        /\ filtered_tracking.rows = SelectSeq(tracking.rows, KeepsTracking)

\* the filter of the amended C4: an optional multiselect filters when its
\* column exists and its selection is not empty
KeepsInfluencerIfSelected(r) ==
    /\ r.platform \in sel.platforms
    /\ ("category" \in influencers.cols /\ sel.categories # {}) =>
           r.category \in sel.categories
    /\ ("gender" \in influencers.cols /\ sel.genders # {}) => r.gender \in sel.genders
    /\ FollowerCol(influencers.cols) # NoStr =>
           InRange(r.followers, sel.followers.lo, sel.followers.hi)
KeepsTrackingIfSelected(r) ==
    /\ r.campaign \in sel.campaigns
    /\ ("product" \in tracking.cols /\ sel.products # {}) => r.product \in sel.products

\* C4 as amended: as C4, but an optional multiselect dimension (category,
\* gender, product) filters only when its column exists and its selection
\* is not empty: an empty selection for it passes all rows, as an absent
\* column does.  An empty platform or campaign selection gives an empty
\* table.
C4_SelectedOrUnfiltered ==
    (Ran /\ status.sidebar = "ok") =>
        /\ filtered_influencers.rows = SelectSeq(influencers.rows, KeepsInfluencerIfSelected)
        /\ filtered_tracking.rows = SelectSeq(tracking.rows, KeepsTrackingIfSelected)
        /\ sel.platforms = {} => filtered_influencers.rows = <<>>
        /\ sel.campaigns = {} => filtered_tracking.rows = <<>>

\* C4's case: two influencers, no category selected (both pass it), one
\* gender selected (one influencer is dropped by it)
C4_Witness ==
    /\ Ran /\ status.sidebar = "ok"
    /\ {"category", "gender"} \subseteq influencers.cols
    /\ sel.categories = {} /\ Cardinality(sel.genders) = 1
    /\ Len(influencers.rows) = 2 /\ Len(filtered_influencers.rows) = 1
    /\ \A i \in 1..2 : influencers.rows[i].platform \in sel.platforms

\* C5: with every widget at its default the filtered influencer table is
\* the influencer table row for row, and the filtered tracking table the
\* tracking table, also when a follower count is missing or was no number.
C5_DefaultsKeepEveryRow ==
    (Ran /\ status.sidebar = "ok" /\ sel = DefaultSel(cache)) =>
        /\ filtered_influencers.rows = influencers.rows
        /\ filtered_tracking.rows = tracking.rows

\* C9: a run leaves the four raw tables as load_and_clean_data returned
\* them.
C9_RawTablesUnchanged ==
    /\ influencers = cache.influencers
    /\ posts = cache.posts
    /\ tracking = cache.tracking
    /\ payouts = cache.payouts

\* the platform of the filtered influencer with the given id
PlatformOfInfluencer(id) ==
    (CHOOSE x \in Range(filtered_influencers.rows) : x.id = id).platform

\* a two-ended date range is configured
DateRangeSet == sel.dates.n = 2 /\ DateCol(posts.cols) # NoStr

\* the post is in the view: its influencer is a filtered influencer and,
\* with a date range, its calendar date is in the range
InPostView(post) ==
    /\ post.influencer_id \in FilteredIds
    /\ DateRangeSet =>
          /\ IsNum(post.date)
          /\ sel.dates.start <= DateOf(post.date.v)
          /\ DateOf(post.date.v) <= sel.dates.end

\* C10: the post-performance view holds exactly the posts of filtered
\* influencers (with a two-ended date range: those of them whose calendar
\* date d has start <= d <= end), each with the influencer's platform; it
\* is built without error whenever the join keys exist, also when it is
\* empty.
C10_PostView ==
    (Ran /\ status.sidebar = "ok"
         /\ "influencer_id" \in posts.cols /\ "id" \in influencers.cols) =>
        LET expected == SelectSeq(posts.rows, InPostView)
        IN  /\ status.posts = "ok"
            /\ Len(merged_posts) = Len(expected)
            /\ \A k \in 1..Len(expected) :
                  /\ merged_posts[k].influencer_id = expected[k].influencer_id
                  /\ merged_posts[k].date = expected[k].date
                  /\ merged_posts[k].platform =
                        PlatformOfInfluencer(expected[k].influencer_id)

\* C10's case: a date range of one day keeps an afternoon post of that
\* day, whose own platform differs from its influencer's, and drops the
\* other post
C10_Witness ==
    /\ Ran /\ status.posts = "ok"
    /\ sel.dates.n = 2 /\ sel.dates.start = 2 /\ sel.dates.end = 2
    /\ Len(posts.rows) = 2 /\ Len(merged_posts) = 1
    /\ \A i \in 1..2 : posts.rows[i].influencer_id \in FilteredIds
    /\ merged_posts[1].date = Num(5)
    /\ merged_posts[1].platform_x = "tw"
    /\ merged_posts[1].platform \in {"ig", "yt"}

\* how often the row r occurs in the table
Occurrences(rows, r) == Cardinality({k \in 1..Len(rows) : rows[k] = r})

\* the rows of list are rows of the table, and no row of the table left
\* out of list comes before a row of list in the order
Selects(list, table, ascending) ==
    /\ \A r \in Range(list) : Occurrences(list, r) <= Occurrences(table, r)
    /\ \A r \in Range(table) :
          Occurrences(list, r) < Occurrences(table, r) =>
              \A t \in Range(list) :
                  IF ascending THEN ~Lt(r.roas, t.roas) ELSE ~Lt(t.roas, r.roas)

IsPoor(r) == Lt(r.roas, Num(100))

\* C6 as stated, for a ROAS table whose roas values are all numbers: the
\* top list has at most 5 rows in strictly descending order of roas, the
\* poor list at most 5 rows of roas < 1 in strictly ascending order; both
\* hold rows of the table, and no row left out beats a row of its list.
C6_StrictlySorted ==
    (Ran /\ status.insights = "ok" /\ \A r \in Range(roas_df) : IsNum(r.roas)) =>
        /\ Len(top_influencers) <= TopN
        /\ \A i, j \in 1..Len(top_influencers) :
              i < j => Lt(top_influencers[j].roas, top_influencers[i].roas)
        /\ Selects(top_influencers, roas_df, FALSE)
        /\ Len(poor_roas) <= TopN
        /\ \A r \in Range(poor_roas) : IsPoor(r)
        /\ \A i, j \in 1..Len(poor_roas) :
              i < j => Lt(poor_roas[i].roas, poor_roas[j].roas)
        /\ Selects(poor_roas, SelectSeq(roas_df, IsPoor), TRUE)

\* C6 as amended: the top list has at most 5 rows in descending order of
\* roas, the poor list at most 5 rows of roas < 1 in ascending order, rows
\* of equal roas allowed in both (no row has a roas greater, in the poor
\* list smaller, than a row before it); both hold rows of the table, and
\* no row left out beats a row of its list.
C6_Sorted ==
    (Ran /\ status.insights = "ok") =>
        /\ Len(top_influencers) <= TopN
        /\ \A i, j \in 1..Len(top_influencers) :
              i < j => ~Lt(top_influencers[i].roas, top_influencers[j].roas)
        /\ Selects(top_influencers, roas_df, FALSE)
        /\ Len(poor_roas) <= TopN
        /\ \A r \in Range(poor_roas) : IsPoor(r)
        /\ \A i, j \in 1..Len(poor_roas) :
              i < j => ~Lt(poor_roas[j].roas, poor_roas[i].roas)
        /\ Selects(poor_roas, SelectSeq(roas_df, IsPoor), TRUE)

\* C6's case: six rows, of which the top list takes five, two of them of
\* equal roas, and a poor list of two different roas
C6_Witness ==
    /\ Ran /\ status.insights = "ok"
    /\ Len(roas_df) = 6 /\ Len(top_influencers) = TopN
    /\ \E i \in 1..4 : /\ top_influencers[i].roas = top_influencers[i + 1].roas
                        /\ IsNum(top_influencers[i].roas)
    /\ top_influencers[1].roas # top_influencers[TopN].roas
    /\ Len(poor_roas) >= 2 /\ poor_roas[1].roas # poor_roas[Len(poor_roas)].roas
    /\ roas_df[1] \notin Range(top_influencers)

\* the ROI step was entered in this run
RoiEntered == Ran /\ status.roi # "skipped"

\* C11: in the ROI step payout_amount is renamed to total_payout only when
\* the payouts table has no total_payout; a payouts table that has
\* total_payout keeps exactly one total_payout column, holding its
\* original values; with neither column the step ends with a schema error
\* and no ROI table.
C11_RenameOnlyWhenAbsent ==
    RoiEntered =>
        LET payouts_roi == PayoutsRoi(payouts)
        IN  /\ "total_payout" \in payouts.cols =>
                  /\ ~payouts_roi.dup
                  /\ \A i \in 1..Len(payouts.rows) :
                        payouts_roi.rows[i].total_payout = payouts.rows[i].total_payout
                  /\ status.roi = "ok"
            /\ ("total_payout" \notin payouts.cols /\ "payout_amount" \in payouts.cols) =>
                  \A i \in 1..Len(payouts.rows) :
                        payouts_roi.rows[i].total_payout = payouts.rows[i].payout_amount
            /\ RoiMissing(payouts) => (status.roi = "stopped" /\ roi_df = <<>>)

\* orders on both sides: two influencers, up to MaxTracking tracking
\* records, and payouts with or without an orders column whose values
\* differ from the tracking records'
OrdersCaches ==
    Caches({TwoInfluencers}, {OnePost},
           Tables(TrkCols,
                  {Trk(i, "c1", NoStr, c[1], c[2]) :
                      i \in {1, 2},
                      c \in {<<Num(100), Num(3)>>, <<Num(40), Num(1)>>, <<Num(7), Text>>}},
                  MaxTracking),
           UNION {Tables(PayCols \cup o,
                         {Pay(i, y, NaN, IF o = {} THEN NaN ELSE n) :
                             i \in {1, 2}, y \in {Num(8), Num(3)},
                             n \in {Num(2), Num(5)}},
                         MaxPayouts) : o \in {{}, {"orders"}}})

InitOrders == \E c \in OrdersCaches : InitOf(c)

SpecOrders == InitOrders /\ [][Next]_vars

\* the pairs of the tracking-payout join for influencer id
PairsOf(id) == {x \in RoiPairs : payouts.rows[x[2]].influencer_id = id}

\* the sum over the pairs P of a column: total_payout is read from the
\* payout row of the pair, every other column from its tracking record
RECURSIVE PairSum(_, _)
PairSum(P, col) ==
    IF P = {} THEN 0
    ELSE LET x == CHOOSE y \in P : TRUE
             cell == IF col = "total_payout" THEN payouts.rows[x[2]][col]
                     ELSE filtered_tracking.rows[x[1]][col]
         IN  AsNumber(cell) + PairSum(P \ {x}, col)

\* C12: in a row of the incremental-ROAS table orders, revenue and
\* total_payout are the sums, over the rows of the tracking-payout inner
\* join for the row's influencer_id, of the tracking record's orders, the
\* tracking record's revenue and the payout's total_payout; the payouts
\* side's orders never contribute.
C12_TrackingSideOrders ==
    (Ran /\ status.iroas = "ok") =>
        \A k \in 1..Len(incremental_df) :
            LET r == incremental_df[k]
                P == PairsOf(r.influencer_id)
            IN  /\ r.orders = PairSum(P, "orders")
                /\ r.revenue = PairSum(P, "revenue")
                /\ r.total_payout = PairSum(P, "total_payout")

\* C12's case: both tables have an orders column; an influencer with two
\* filtered tracking records and one payout of amount p > 0, whose orders
\* differ from the tracking records', has total_payout = 2 * p
C12_Witness ==
    /\ Ran /\ status.iroas = "ok"
    /\ "orders" \in payouts.cols /\ "orders" \in filtered_tracking.cols
    /\ \E k \in 1..Len(incremental_df) :
          LET r == incremental_df[k]
              P == PairsOf(r.influencer_id)
          IN  /\ Cardinality(P) = 2
              /\ Cardinality({x[2] : x \in P}) = 1
              /\ \E x \in P : /\ IsNum(payouts.rows[x[2]].total_payout)
                               /\ payouts.rows[x[2]].total_payout.v > 0
                               /\ r.total_payout = 2 * payouts.rows[x[2]].total_payout.v
                               /\ IsNum(payouts.rows[x[2]].orders)
                               /\ r.orders # 2 * payouts.rows[x[2]].orders.v
              /\ r.orders > 0

====
